---- MODULE Spec2Model ----
(***************************************************************************)
(* State-machine model of the project_log portal: the student submission   *)
(* page (pages/1_Submit_Log.py), the token issuer (utils/email_sender.py), *)
(* the supervisor verification page (pages/5_Verify.py) and the MongoDB    *)
(* collections they read and write (utils/database.py).                    *)
(*                                                                         *)
(* Every store access of a page run is one atomic step; the page runs of   *)
(* different browser sessions interleave between store accesses, as the    *)
(* Streamlit server runs each session's script in its own thread.          *)
(***************************************************************************)
EXTENDS Integers, Sequences, FiniteSets, TLC

(***************************************************************************)
(* Bounds of the model.                                                    *)
(***************************************************************************)
MaxLogs == 2        \* documents ever inserted in db.logs
MaxStudents == 3    \* documents ever inserted in db.students
MaxAdmins == 2      \* documents ever inserted in db.admins

(***************************************************************************)
(* Program constants.                                                      *)
(***************************************************************************)
MinContentLen == 50 \* Submit_Log.py:107
MinWeek == 1        \* Submit_Log.py:70
MaxWeek == 52       \* Submit_Log.py:71
MinPasswordLen == 8 \* Change_Password.py:108
MinAdminPasswordLen == 5    \* 7_super_admin.py:97

\* Python's None, as a query parameter that is absent, a document field that
\* is null, or a function result.  Strings stand for every scalar so that
\* values of the program stay comparable.
NULL == "<None>"

Sessions == {"s1", "s2"}     \* browser sessions of students
Verifiers == {"v1", "v2"}    \* clients requesting the verification page

\* The text inputs: sequences of characters, " " being whitespace.
Rep(n, ch) == [i \in 1..n |-> ch]
ContentInputs ==
    { <<>>,
      Rep(2, " ") \o Rep(MinContentLen - 1, "a") \o Rep(2, " "),
      Rep(1, " ") \o Rep(MinContentLen, "a") \o Rep(1, " ") }

\* week_number = st.number_input(min_value=1, max_value=52)
WeekInputs == {MinWeek, MaxWeek}

\* str.strip(): drops the leading and the trailing whitespace.
RECURSIVE LStrip(_)
LStrip(s) == IF s # <<>> /\ Head(s) = " " THEN LStrip(Tail(s)) ELSE s
RECURSIVE RStrip(_)
RStrip(s) ==
    IF s # <<>> /\ s[Len(s)] = " " THEN RStrip(SubSeq(s, 1, Len(s) - 1)) ELSE s
strip(s) == RStrip(LStrip(s))

VARIABLES
    students,       \* db.students: sequence of documents
    logs,           \* db.logs: sequence of documents, _id = position
    now,            \* datetime.now(), advanced by every insert
    ntokens,        \* tokens drawn so far from secrets.token_urlsafe
    outbox,         \* mails handed to the SMTP server
    session_state,  \* st.session_state of every student session
    spc,            \* position of a session's Submit_Log run
    form,           \* the submitted form values of that run
    existing_log,   \* Submit_Log.py:77, result of check_existing_log
    log_id,         \* Submit_Log.py:112, result of create_log
    token,          \* email_sender.py:51, the token of the running issuance
    vpc,            \* position of a client's Verify run
    vreq,           \* its query parameters token and action
    vlog,           \* database.py:283, the document find_one returned
    prior,          \* history: the redemption of vreq.token completed before
    redeemed,       \* history: first completed redemption of every token
    shown,          \* the page most recently rendered to any client
    admins,         \* db.admins: sequence of documents
    supervisors,    \* db.supervisors: sequence of documents
    df,             \* 4_Admin.py:111, the rows an import has still to process
    script,         \* the admin page whose import a session is running
    listed          \* the student list most recently rendered, and to whom

store == <<students, logs, now, ntokens, outbox>>
admin_vars == <<admins, supervisors, df, script, listed>>
submit_vars == <<session_state, spc, form, existing_log, log_id, token>>
verify_vars == <<vpc, vreq, vlog, prior, redeemed>>
vars == <<store, submit_vars, verify_vars, shown, admin_vars>>

(***************************************************************************)
(* Values of the program.                                                  *)
(***************************************************************************)
\* An optional document (a dict or None): <<>> is None, <<d>> is the dict d.
NoDoc == <<>>
Doc(d) == <<d>>

\* st.session_state before any key is written, and dict.get(key, default).
EmptyDict == [k \in {} |-> NULL]
Get(d, k, default) == IF k \in DOMAIN d THEN d[k] ELSE default

\* The dict d after the assignments d[k] = e[k] for every key k of e.
Assign(d, e) ==
    [k \in DOMAIN d \cup DOMAIN e |-> IF k \in DOMAIN e THEN e[k] ELSE d[k]]

\* Passwords are sequences of characters.
Upper == {"A", "B", "C", "D", "E", "F", "G", "H", "I", "J", "K", "L", "M",
          "N", "O", "P", "Q", "R", "S", "T", "U", "V", "W", "X", "Y", "Z"}
Lower == {"a", "b", "c", "d", "e", "f", "g", "h", "i", "j", "k", "l", "m",
          "n", "o", "p", "q", "r", "s", "t", "u", "v", "w", "x", "y", "z"}
Digits == {"0", "1", "2", "3", "4", "5", "6", "7", "8", "9"}

TempPass == <<"p", "w", "-", "a">>                   \* alice's temporary password
WrongPass == <<"w", "r", "o", "n", "g">>
NewPass == <<"N", "e", "w", "p", "a", "s", "s", "1">>
WeakPass == <<"n", "e", "w", "p", "a", "s", "s", "1">>  \* no uppercase letter
ShortPass == <<"N", "e", "w", "1">>
AdminPass == <<"a", "d", "m", "i", "n">>

\* bcrypt: the hash embeds the password under a salt; checkpw recomputes it.
hash_password(password) == <<"bcrypt", password>>
verify_password(password, hashed_password) ==
    hashed_password = hash_password(password)

\* A student document as create_student inserts it, created at time 0.
student_doc(username, password, name, email, supervisor_email, department) ==
    [ username |-> username, password |-> hash_password(password),
      name |-> name, email |-> email, supervisor_email |-> supervisor_email,
      department |-> department, created_at |-> 0,
      must_change_password |-> TRUE ]

\* The students an administrator has imported before the students arrive.
InitialStudents ==
    << student_doc("alice", TempPass, "Alice", "alice@uni", "sup1@uni", "CS") >>

\* The supervisors that import has created.
InitialSupervisors ==
    << [ email |-> "sup1@uni", name |-> "Dr One", created_at |-> 0 ] >>

\* The document create_admin inserts.
admin_data(username, password_hash, name, email, department, role, created_at) ==
    [ username |-> username, password |-> password_hash, name |-> name,
      email |-> email, department |-> department, role |-> role,
      created_at |-> created_at, must_change_password |-> TRUE ]

\* The account that create_super_admin.py has set up.
InitialAdmins ==
    << admin_data("superadmin", hash_password(AdminPass), "Root", "root@uni",
                  "ALL", "super_admin", 0) >>

UsernameInputs == {"alice", "ghost", ""}
PasswordInputs == {TempPass, WrongPass, NewPass, <<>>}

\* Mutant of generate_verification_token: every draw gives the same token.
generate_verification_token_Fixed(n) == "tok1"

\* secrets.token_urlsafe(32): the n-th draw; draws never repeat.
generate_verification_token(n) == "tok" \o ToString(n)

APP_URL == "http://localhost:8501"

\* Mutant of Link: the action parameter of every link is approved.
Link_Approve(tok, action) ==
    [ base |-> APP_URL, path |-> "/verify", token |-> tok, action |-> "approved" ]

\* email_sender.py:61-62: f"{app_url}/verify?token={token}&action=<action>"
Link(tok, action) ==
    [ base |-> APP_URL, path |-> "/verify", token |-> tok, action |-> action ]

(***************************************************************************)
(* utils/database.py: the collections and their queries.                   *)
(***************************************************************************)
\* collection.find_one(filter): of the positions of the documents that match
\* the filter, the first in natural order; 0 when none matches.
FirstMatch(matching) ==
    IF matching = {} THEN 0
    ELSE CHOOSE i \in matching : \A j \in matching : i <= j

OptDoc(coll, i) == IF i = 0 THEN NoDoc ELSE Doc(coll[i])

get_student_by_username(username) ==
    OptDoc(students, FirstMatch({i \in 1..Len(students) :
                                    students[i].username = username}))

check_existing_log(student_username, week_number) ==
    OptDoc(logs, FirstMatch({i \in 1..Len(logs) :
                                /\ logs[i].student_username = student_username
                                /\ logs[i].week_number = week_number}))

\* Mutant of log_data: the log is inserted as approved.
log_data_Approved(student, student_username, week_number, content) ==
    [ _id |-> Len(logs) + 1,
      student_username |-> student_username,
      student_name |-> student.name,
      student_email |-> student.email,
      supervisor_email |-> student.supervisor_email,
      week_number |-> week_number,
      content |-> content,
      submitted_at |-> now,
      verified |-> "approved",
      verification_token |-> NULL ]

\* The document create_log inserts for a student that was found.
log_data(student, student_username, week_number, content) ==
    [ _id |-> Len(logs) + 1,
      student_username |-> student_username,
      student_name |-> student.name,
      student_email |-> student.email,
      supervisor_email |-> student.supervisor_email,
      week_number |-> week_number,
      content |-> content,
      submitted_at |-> now,
      verified |-> "pending",
      verification_token |-> NULL ]

\* Mutant of update_log_verification_token: the write also stamps the log
\* with the time of the write.
update_log_verification_token_Touch(coll, id, tok) ==
    [ i \in 1..Len(coll) |->
        IF coll[i]._id = id
        THEN [coll[i] EXCEPT !.verification_token = tok, !.submitted_at = now]
        ELSE coll[i] ]

\* update_one({"_id": log_id}, {"$set": {"verification_token": token}})
update_log_verification_token(coll, id, tok) ==
    [ i \in 1..Len(coll) |->
        IF coll[i]._id = id THEN [coll[i] EXCEPT !.verification_token = tok]
        ELSE coll[i] ]

\* Mutant of FindByToken: a token that matches nothing finds the first log.
FindByToken_Fallback(coll, tok) ==
    LET matching == {i \in 1..Len(coll) : coll[i].verification_token = tok}
    IN  IF matching = {} THEN (IF Len(coll) > 0 THEN 1 ELSE 0)
        ELSE CHOOSE i \in matching : \A j \in matching : i <= j

\* verify_log, first statement: find_one({"verification_token": token}).
FindByToken(coll, tok) ==
    FirstMatch({i \in 1..Len(coll) : coll[i].verification_token = tok})

\* Mutant of SetVerified: a log that has the status already goes back to
\* pending.
SetVerified_Toggle(coll, tok, status) ==
    LET i == FindByToken(coll, tok)
    IN  IF i = 0 THEN coll
        ELSE [coll EXCEPT ![i] = [@ EXCEPT !.verified =
                 IF @ = status THEN "pending" ELSE status]]

\* verify_log, second statement:
\* update_one({"verification_token": token}, {"$set": {"verified": status}})
\* changes the first document that holds the token when the update runs.
SetVerified(coll, tok, status) ==
    LET i == FindByToken(coll, tok)
    IN  IF i = 0 THEN coll
        ELSE [coll EXCEPT ![i] = [@ EXCEPT !.verified = status]]

(***************************************************************************)
(* utils/auth.py: the session.                                             *)
(***************************************************************************)
is_logged_in(s) == Get(session_state[s], "logged_in", FALSE)
get_current_user(s) == Get(session_state[s], "username", NULL)

is_admin_logged_in(s) == Get(session_state[s], "admin_logged_in", FALSE)
get_admin_role(s) == Get(session_state[s], "admin_role", NULL)
get_admin_department(s) == Get(session_state[s], "admin_department", NULL)

require_admin_login(s) == is_admin_logged_in(s)

\* Mutant of require_super_admin: the page has no gate.
require_super_admin_Open(s) == s = s

require_super_admin(s) ==
    is_admin_logged_in(s) /\ get_admin_role(s) = "super_admin"

\* Mutant of authenticate_user: the password is not verified.
authenticate_user_NoPassword(username, password) ==
    get_student_by_username(username)

authenticate_user(username, password) ==
    LET student == get_student_by_username(username)
    IN  IF student # NoDoc /\ verify_password(password, student[1].password)
        THEN student ELSE NoDoc

\* A page rendered to a client: its kind and its text.  Only the page rendered
\* last is kept, whoever the client was.
Shown(client, kind, message) == [kind |-> kind, message |-> message]

Init ==
    /\ students = InitialStudents
    /\ logs = <<>>
    /\ now = 1
    /\ ntokens = 0
    /\ outbox = {}
    /\ session_state = [s \in Sessions |-> EmptyDict]
    /\ spc = [s \in Sessions |-> "idle"]
    /\ form = [s \in Sessions |-> [week_number |-> MinWeek, log_content |-> <<>>]]
    /\ existing_log = [s \in Sessions |-> NoDoc]
    /\ log_id = [s \in Sessions |-> 0]
    /\ token = [s \in Sessions |-> NULL]
    /\ vpc = [v \in Verifiers |-> "idle"]
    /\ vreq = [v \in Verifiers |-> [token |-> NULL, action |-> NULL]]
    /\ vlog = [v \in Verifiers |-> NoDoc]
    /\ prior = [v \in Verifiers |-> {}]
    /\ redeemed = {}
    /\ shown = Shown("nobody", "none", "")
    /\ admins = InitialAdmins
    /\ supervisors = InitialSupervisors
    /\ df = [s \in Sessions |-> <<>>]
    /\ script = [s \in Sessions |-> "none"]
    /\ listed = NoDoc

\* streamlit_app.py, show_login_page: the login form is submitted.
Login(s, username, password) ==
    /\ spc[s] = "idle"
    /\ df[s] = <<>>
    /\ ~is_logged_in(s)
    /\ IF username = "" \/ password = <<>>
       THEN /\ shown' = Shown(s, "error", "enter both username and password")
            /\ UNCHANGED session_state
       ELSE LET student == authenticate_user(username, password)
            IN  IF student # NoDoc
                THEN /\ session_state' = [session_state EXCEPT ![s] = Assign(@,
                          [ logged_in |-> TRUE,
                            username |-> student[1].username,
                            student_name |-> student[1].name,
                            must_change_password |->
                                Get(student[1], "must_change_password", FALSE) ])]
                     /\ shown' = Shown(s, "success", "Login successful!")
                ELSE /\ shown' = Shown(s, "error", "Invalid username or password")
                     /\ UNCHANGED session_state
    /\ UNCHANGED <<store, spc, form, existing_log, log_id, token, verify_vars,
                   admin_vars>>

(***************************************************************************)
(* pages/1_Submit_Log.py: one run of the page with the form submitted.     *)
(***************************************************************************)
\* The end of a run: its local variables are gone.
EndRun(s) ==
    /\ spc' = [spc EXCEPT ![s] = "idle"]
    /\ form' = [form EXCEPT ![s] = [week_number |-> MinWeek, log_content |-> <<>>]]
    /\ existing_log' = [existing_log EXCEPT ![s] = NoDoc]
    /\ log_id' = [log_id EXCEPT ![s] = 0]
    /\ token' = [token EXCEPT ![s] = NULL]

\* Mutant of InvalidContent: the length is taken without strip().
InvalidContent_Unstripped(log_content) ==
    log_content = <<>> \/ Len(log_content) < MinContentLen

\* Line 107: not log_content or len(log_content.strip()) < 50
InvalidContent(log_content) ==
    log_content = <<>> \/ Len(strip(log_content)) < MinContentLen

\* Lines 20-108: the login gate, the lookup of this week's log, the submit
\* button, which is disabled (and submits nothing) when a log was found, and
\* the validation of the content.
SubmitCheck(s, week_number, log_content) ==
    /\ spc[s] = "idle"
    /\ is_logged_in(s)
    /\ LET found == check_existing_log(get_current_user(s), week_number)
       IN  IF found # NoDoc
           THEN /\ shown' = Shown(s, "warning", "already submitted a log")
                /\ UNCHANGED <<spc, form, existing_log>>
           ELSE IF InvalidContent(log_content)
           THEN /\ shown' = Shown(s, "error", "at least 50 characters")
                /\ UNCHANGED <<spc, form, existing_log>>
           ELSE /\ spc' = [spc EXCEPT ![s] = "submit"]
                /\ form' = [form EXCEPT ![s] = [week_number |-> week_number,
                                                log_content |-> log_content]]
                /\ existing_log' = [existing_log EXCEPT ![s] = found]
                /\ UNCHANGED shown
    /\ UNCHANGED <<store, session_state, log_id, token, verify_vars, admin_vars>>

\* Lines 110-112 and 153-154: create_log (database.py:190-222).  The store
\* may be unreachable; the page's except clause shows the error.
SubmitCreate(s) ==
    /\ spc[s] = "submit"
    /\ \E reachable \in BOOLEAN :
        LET username == get_current_user(s)
            student == get_student_by_username(username)
        IN  IF ~reachable \/ student = NoDoc
            THEN /\ shown' = Shown(s, "error", "Failed to submit log")
                 /\ EndRun(s)
                 /\ UNCHANGED store
            ELSE /\ Len(logs) < MaxLogs
                 /\ logs' = Append(logs,
                        log_data(student[1], username, form[s].week_number,
                                 strip(form[s].log_content)))
                 /\ now' = now + 1
                 /\ log_id' = [log_id EXCEPT ![s] = Len(logs) + 1]
                 /\ spc' = [spc EXCEPT ![s] = "created"]
                 /\ UNCHANGED <<students, ntokens, outbox, form,
                                existing_log, token, shown>>
    /\ UNCHANGED <<session_state, verify_vars, admin_vars>>

\* What the page shows for the (success, message) pair that
\* send_verification_email returned (Submit_Log.py:129-151).
ShowResult(s, success, message) ==
    IF success THEN Shown(s, "success", message)
    ELSE Shown(s, "warning", message)

\* Mutant of SubmitPersist: the token is drawn but not written to the log.
SubmitPersist_Unwritten(s) ==
    /\ spc[s] = "created"
    /\ ntokens' = ntokens + 1
    /\ token' = [token EXCEPT ![s] = generate_verification_token(ntokens + 1)]
    /\ spc' = [spc EXCEPT ![s] = "persisted"]
    /\ UNCHANGED <<logs, form, existing_log, log_id, shown>>
    /\ UNCHANGED <<students, now, outbox, session_state, verify_vars, admin_vars>>

\* email_sender.py:49-54 and 173-174: the token is drawn and written to the
\* log; an exception of the store is caught by the function's except clause.
SubmitPersist(s) ==
    /\ spc[s] = "created"
    /\ ntokens' = ntokens + 1
    /\ \E reachable \in BOOLEAN :
        LET tok == generate_verification_token(ntokens + 1)
        IN  IF reachable
            THEN /\ logs' = update_log_verification_token(logs, log_id[s], tok)
                 /\ token' = [token EXCEPT ![s] = tok]
                 /\ spc' = [spc EXCEPT ![s] = "persisted"]
                 /\ UNCHANGED <<form, existing_log, log_id, shown>>
            ELSE /\ shown' = ShowResult(s, FALSE,
                                "Failed to send email: store unreachable")
                 /\ EndRun(s)
                 /\ UNCHANGED logs
    /\ UNCHANGED <<students, now, outbox, session_state, verify_vars, admin_vars>>

MailOutcomes == {"sent", "no_user", "no_password", "smtp_error"}

\* The (success, message) pair of email_sender.py:150-174.
SendResult(outcome, supervisor_email) ==
    CASE outcome = "sent" -> <<TRUE, "Verification email sent">>
      [] outcome = "no_user" -> <<FALSE, "Failed to send email: GMAIL_USER">>
      [] outcome = "no_password" ->
            <<FALSE, "Email credentials not configured in secrets">>
      [] OTHER -> <<FALSE, "Failed to send email: SMTP error">>

\* Mutant of SubmitSend: a failed send takes the token off the log again.
SubmitSend_Rollback(s) ==
    /\ spc[s] = "persisted"
    /\ \E outcome \in MailOutcomes :
        LET student == get_student_by_username(get_current_user(s))[1]
            result == SendResult(outcome, student.supervisor_email)
            mail == [ to |-> student.supervisor_email,
                      log_id |-> log_id[s],
                      approve_link |-> Link(token[s], "approved"),
                      reject_link |-> Link(token[s], "rejected") ]
        IN  /\ outbox' = IF outcome = "sent" THEN outbox \cup {mail} ELSE outbox
            /\ logs' = IF outcome = "sent" THEN logs
                       ELSE update_log_verification_token(logs, log_id[s], NULL)
            /\ shown' = ShowResult(s, result[1], result[2])
    /\ EndRun(s)
    /\ UNCHANGED <<students, now, ntokens, session_state, verify_vars,
                   admin_vars>>

\* email_sender.py:56-174: the links are built and the mail is handed to the
\* SMTP server, or the credentials are missing, or the server fails.
SubmitSend(s) ==
    /\ spc[s] = "persisted"
    /\ \E outcome \in MailOutcomes :
        LET student == get_student_by_username(get_current_user(s))[1]
            result == SendResult(outcome, student.supervisor_email)
            mail == [ to |-> student.supervisor_email,
                      log_id |-> log_id[s],
                      approve_link |-> Link(token[s], "approved"),
                      reject_link |-> Link(token[s], "rejected") ]
        IN  /\ outbox' = IF outcome = "sent" THEN outbox \cup {mail} ELSE outbox
            /\ shown' = ShowResult(s, result[1], result[2])
    /\ EndRun(s)
    /\ UNCHANGED <<students, logs, now, ntokens, session_state, verify_vars,
                   admin_vars>>

(***************************************************************************)
(* pages/5_Verify.py and database.py:271-291 (verify_log).                 *)
(***************************************************************************)
\* A token is known to nobody but the run that drew it until that run ends.
TokenInputs ==
    {NULL, "", "bogus"}
        \cup ({generate_verification_token(n) : n \in 1..ntokens}
                 \ {token[s] : s \in Sessions})
ActionInputs == {NULL, "approved", "rejected", "maybe", "pending"}

\* The end of a run: its local variables are gone.
EndVerify(v) ==
    /\ vpc' = [vpc EXCEPT ![v] = "idle"]
    /\ vreq' = [vreq EXCEPT ![v] = [token |-> NULL, action |-> NULL]]
    /\ vlog' = [vlog EXCEPT ![v] = NoDoc]
    /\ prior' = [prior EXCEPT ![v] = {}]

\* Mutant of MissingParams: only the action is required.
MissingParams_ActionOnly(tok, action) == action \in {NULL, ""}

\* Line 27: not token or not action
MissingParams(tok, action) == tok \in {NULL, ""} \/ action \in {NULL, ""}

\* Mutant of ValidAction: the check of the action's value is left out.
ValidAction_Unchecked(action) == action = action

\* Mutant of ValidAction: every status of a log is accepted as an action.
ValidAction_AnyStatus(action) == action \in {"pending", "approved", "rejected"}

\* Line 37, negated: action in ['approved', 'rejected']
ValidAction(action) == action \in {"approved", "rejected"}

\* Verify.py:19-54 and database.py:282-285, 291: the query parameters are
\* read and checked, then verify_log looks the token up.
VerifyRequest(v, tok, action) ==
    /\ vpc[v] = "idle"
    /\ IF MissingParams(tok, action)
       THEN /\ shown' = Shown(v, "error", "Invalid Verification Link")
            /\ UNCHANGED <<vpc, vreq, vlog, prior>>
       ELSE IF ~ValidAction(action)
       THEN /\ shown' = Shown(v, "error", "Invalid action")
            /\ UNCHANGED <<vpc, vreq, vlog, prior>>
       ELSE LET i == FindByToken(logs, tok)
            IN  IF i = 0
                THEN /\ shown' = Shown(v, "error", "Verification Failed")
                     /\ UNCHANGED <<vpc, vreq, vlog, prior>>
                ELSE /\ vpc' = [vpc EXCEPT ![v] = "update"]
                     /\ vreq' = [vreq EXCEPT ![v] =
                                    [token |-> tok, action |-> action]]
                     /\ vlog' = [vlog EXCEPT ![v] = OptDoc(logs, i)]
                     /\ prior' = [prior EXCEPT ![v] =
                                    {r \in redeemed : r.token = tok}]
                     /\ UNCHANGED shown
    /\ UNCHANGED <<store, submit_vars, redeemed, admin_vars>>

\* database.py:286-290, Verify.py:55-102.
VerifyUpdate(v) ==
    /\ vpc[v] = "update"
    /\ logs' = SetVerified(logs, vreq[v].token, vreq[v].action)
    /\ shown' = IF vreq[v].action = "approved"
                THEN Shown(v, "success", "Log Approved Successfully!")
                ELSE Shown(v, "warning", "Log Rejected")
    /\ EndVerify(v)
    /\ redeemed' =
        IF \E r \in redeemed : r.token = vreq[v].token THEN redeemed
        ELSE redeemed \cup {[ token |-> vreq[v].token,
                              log |-> vlog[v][1]._id,
                              action |-> vreq[v].action ]}
    /\ UNCHANGED <<students, now, ntokens, outbox, submit_vars, admin_vars>>

(***************************************************************************)
(* pages/3_Change_Password.py: the form is submitted.                      *)
(***************************************************************************)
NewPasswordInputs == {NewPass, WeakPass, ShortPass, TempPass, <<>>}

Has(password, class) == \E i \in 1..Len(password) : password[i] \in class

\* Lines 89-118: the errors list.
password_errors(current_password, new_password, confirm_password, stored) ==
    (IF current_password = <<>> \/ new_password = <<>> \/ confirm_password = <<>>
        THEN {"All fields are required"} ELSE {})
    \cup (IF current_password # <<>> /\ ~verify_password(current_password, stored)
        THEN {"Current password is incorrect"} ELSE {})
    \cup (IF new_password # confirm_password
        THEN {"New passwords do not match"} ELSE {})
    \cup (IF current_password = new_password
        THEN {"New password must be different from current password"} ELSE {})
    \cup (IF Len(new_password) < MinPasswordLen
        THEN {"Password must be at least 8 characters long"} ELSE {})
    \cup (IF ~Has(new_password, Upper)
        THEN {"Password must contain at least one uppercase letter"} ELSE {})
    \cup (IF ~Has(new_password, Lower)
        THEN {"Password must contain at least one lowercase letter"} ELSE {})
    \cup (IF ~Has(new_password, Digits)
        THEN {"Password must contain at least one number"} ELSE {})

\* update_one({"username": username},
\*            {"$set": {"password": hash, "must_change_password": False}})
update_student_password(coll, username, new_password_hash) ==
    LET i == FirstMatch({k \in 1..Len(coll) : coll[k].username = username})
    IN  IF i = 0 THEN coll
        ELSE [coll EXCEPT ![i] = [@ EXCEPT !.password = new_password_hash,
                                           !.must_change_password = FALSE]]

\* Lines 19-27 and 87-145.  The student is looked up and the password is
\* written in one step.
ChangePassword(s, current_password, new_password, confirm_password) ==
    /\ spc[s] = "idle"
    /\ is_logged_in(s)
    /\ LET username == get_current_user(s)
           student == get_student_by_username(username)
           errors == password_errors(current_password, new_password,
                                     confirm_password, student[1].password)
       IN  IF errors # {}
           THEN /\ shown' = Shown(s, "error", "password not changed")
                /\ UNCHANGED <<students, session_state>>
           ELSE \E reachable \in BOOLEAN :
                IF reachable
                THEN /\ students' = update_student_password(students, username,
                                        hash_password(new_password))
                     /\ session_state' = [session_state EXCEPT ![s] =
                            Assign(@, [must_change_password |-> FALSE])]
                     /\ shown' = Shown(s, "success",
                                       "Password changed successfully!")
                ELSE /\ shown' = Shown(s, "error", "An error occurred")
                     /\ UNCHANGED <<students, session_state>>
    /\ UNCHANGED <<logs, now, ntokens, outbox, spc, form, existing_log, log_id,
                   token, verify_vars, admin_vars>>

(***************************************************************************)
(* pages/6_admin_login.py and pages/4_Admin.py: the administrator.         *)
(***************************************************************************)
AdminUsernameInputs == {"superadmin", "admin_cs", "alice", ""}
AdminPasswordInputs == {AdminPass, WrongPass, <<>>}

get_admin_by_username(username) ==
    OptDoc(admins, FirstMatch({i \in 1..Len(admins) :
                                  admins[i].username = username}))

authenticate_admin(username, password) ==
    LET admin == get_admin_by_username(username)
    IN  IF admin # NoDoc /\ verify_password(password, admin[1].password)
        THEN admin ELSE NoDoc

\* 6_admin_login.py:83-94 and auth.py:159-183 (login_admin).
AdminLogin(s, username, password) ==
    /\ ~is_admin_logged_in(s)
    /\ df[s] = <<>>
    /\ IF username = "" \/ password = <<>>
       THEN /\ shown' = Shown(s, "error", "enter both username and password")
            /\ UNCHANGED session_state
       ELSE LET admin == authenticate_admin(username, password)
            IN  IF admin # NoDoc
                THEN /\ session_state' = [session_state EXCEPT ![s] = Assign(@,
                          [ admin_logged_in |-> TRUE,
                            admin_username |-> admin[1].username,
                            admin_name |-> admin[1].name,
                            admin_department |-> admin[1].department,
                            admin_role |-> admin[1].role,
                            admin_must_change_password |->
                                Get(admin[1], "must_change_password", FALSE) ])]
                     /\ shown' = Shown(s, "success", "Admin login successful!")
                ELSE /\ shown' = Shown(s, "error",
                                       "Invalid admin username or password")
                     /\ UNCHANGED session_state
    /\ UNCHANGED <<store, spc, form, existing_log, log_id, token, verify_vars,
                   admin_vars>>

\* A row of the uploaded CSV, with the required columns.
Row(username, name, email, supervisor_name, supervisor_email, password) ==
    [ username |-> username, name |-> name, email |-> email,
      supervisor_name |-> supervisor_name,
      supervisor_email |-> supervisor_email, password |-> password ]

RowAlice == Row("alice", "Alice", "alice@uni", "Dr One", "sup1@uni", TempPass)
RowBob == Row("bob", "Bob", "bob@uni", "Dr Two", "sup2@uni", TempPass)

\* The uploaded files: the file imported before, a file that repeats a
\* username, and a file of new students.
CsvInputs == { <<RowAlice>>, <<RowBob, RowBob>>, <<RowBob>> }

\* get_or_create_supervisor: find_one({"email": email}), then insert_one when
\* there is none.
get_or_create_supervisor(coll, email, name) ==
    IF \E i \in 1..Len(coll) : coll[i].email = email THEN coll
    ELSE Append(coll, [ email |-> email, name |-> name, created_at |-> now ])

\* The document create_student inserts.
student_data(username, password_hash, name, email, supervisor_email, department) ==
    [ username |-> username, password |-> password_hash,
      name |-> name, email |-> email, supervisor_email |-> supervisor_email,
      department |-> department, created_at |-> now,
      must_change_password |-> TRUE ]

\* create_student's default for the department parameter.
DefaultDepartment == "general"

\* get_all_students: find({"department": department} if department else {})
RECURSIVE FindByDepartment(_, _)
FindByDepartment(coll, department) ==
    IF coll = <<>> THEN <<>>
    ELSE (IF Head(coll).department = department THEN <<Head(coll)>> ELSE <<>>)
            \o FindByDepartment(Tail(coll), department)

get_all_students(coll, department) ==
    IF department \in {NULL, ""} THEN coll
    ELSE FindByDepartment(coll, department)

\* The View All Students tab.  4_Admin.py:196-201 filters by the session's
\* department unless the session is a super admin's; the page without the
\* login gate (4_..._Admin.py:172) reads every student.
StudentList(page, s, coll) ==
    IF page = "4_Admin" /\ get_admin_role(s) # "super_admin"
    THEN get_all_students(coll, get_admin_department(s))
    ELSE get_all_students(coll, NULL)

Listed(s, list) == Doc([session |-> s, students |-> list])

\* 4_Admin.py:20 and 108-132: a file is uploaded and Import Students is
\* clicked in a session that passed require_admin_login.
ImportStart(s, csv) ==
    /\ require_admin_login(s)
    /\ df[s] = <<>>
    /\ df' = [df EXCEPT ![s] = csv]
    /\ script' = [script EXCEPT ![s] = "4_Admin"]
    /\ UNCHANGED <<store, submit_vars, verify_vars, shown, admins, supervisors,
                   listed>>

\* The same on the admin page that has no login gate (4_..._Admin.py:87-111).
ImportStartOpen(s, csv) ==
    /\ df[s] = <<>>
    /\ df' = [df EXCEPT ![s] = csv]
    /\ script' = [script EXCEPT ![s] = "4_Admin_open"]
    /\ UNCHANGED <<store, submit_vars, verify_vars, shown, admins, supervisors,
                   listed>>

\* 4_Admin.py:140-184 (4_..._Admin.py:119-162): one turn of the loop over the
\* rows, and after the last row the summary and the student list of the
\* second tab.  A row whose store access fails is counted as an error.  The
\* gated page passes the session's department, the other page none.
ImportRow(s) ==
    /\ df[s] # <<>>
    /\ LET row == Head(df[s])
           department == IF script[s] = "4_Admin" THEN get_admin_department(s)
                         ELSE DefaultDepartment
       IN  \E reachable \in BOOLEAN :
            IF reachable
            THEN /\ Len(students) < MaxStudents
                 /\ supervisors' = get_or_create_supervisor(supervisors,
                                       row.supervisor_email, row.supervisor_name)
                 /\ students' = Append(students,
                        student_data(row.username, hash_password(row.password),
                                     row.name, row.email, row.supervisor_email,
                                     department))
                 /\ now' = now + 1
            ELSE UNCHANGED <<supervisors, students, now>>
    /\ df' = [df EXCEPT ![s] = Tail(@)]
    /\ IF Len(df[s]) = 1
       THEN /\ shown' = Shown(s, "success", "Import complete!")
            /\ script' = [script EXCEPT ![s] = "none"]
            /\ listed' = Listed(s, StudentList(script[s], s, students'))
       ELSE UNCHANGED <<shown, script, listed>>
    /\ UNCHANGED <<logs, ntokens, outbox, submit_vars, verify_vars, admins>>

\* 4_Admin.py:20 and 196-201: the page is opened and shows the student list.
ViewStudents(s) ==
    /\ require_admin_login(s)
    /\ df[s] = <<>>
    /\ listed' = Listed(s, StudentList("4_Admin", s, students))
    /\ UNCHANGED <<store, submit_vars, verify_vars, shown, admins, supervisors,
                   df, script>>

\* 4_..._Admin.py:167-172: the same on the page that has no login gate.
ViewStudentsOpen(s) ==
    /\ df[s] = <<>>
    /\ listed' = Listed(s, StudentList("4_Admin_open", s, students))
    /\ UNCHANGED <<store, submit_vars, verify_vars, shown, admins, supervisors,
                   df, script>>

\* auth.py:186-195 (logout_admin), 4_Admin.py:38-41.
AdminKeys == {"admin_logged_in", "admin_username", "admin_name",
              "admin_department", "admin_role", "admin_must_change_password"}

AdminLogout(s) ==
    /\ is_admin_logged_in(s)
    /\ df[s] = <<>>
    /\ session_state' = [session_state EXCEPT ![s] =
                            [k \in DOMAIN @ \ AdminKeys |-> @[k]]]
    /\ shown' = Shown(s, "success", "Logged out successfully!")
    /\ UNCHANGED <<store, spc, form, existing_log, log_id, token, verify_vars,
                   admin_vars>>

(***************************************************************************)
(* pages/7_super_admin.py: a department admin is created.                  *)
(***************************************************************************)
NewAdminUsernameInputs == {"admin_cs", "superadmin", ""}
DepartmentInputs == {"cs", ""}
ShortAdminPass == <<"a", "d", "m">>
TempPasswordInputs == {AdminPass, ShortAdminPass}

\* str.upper() of the department codes.
upper(str) == CASE str = "cs" -> "CS" [] str = "eng" -> "ENG" [] OTHER -> str

\* Lines 89-103: the errors list.
admin_errors(admin_username, admin_name, admin_email, admin_department, temp_password, confirm_password) ==
    (IF \/ admin_username = "" \/ admin_name = "" \/ admin_email = ""
        \/ admin_department = "" \/ temp_password = <<>>
        THEN {"All fields are required"} ELSE {})
    \cup (IF temp_password # confirm_password
        THEN {"Passwords do not match"} ELSE {})
    \cup (IF Len(temp_password) < MinAdminPasswordLen
        THEN {"Password must be at least 5 characters"} ELSE {})
    \cup (IF get_admin_by_username(admin_username) # NoDoc
        THEN {"Admin username already exists"} ELSE {})

\* Lines 20 and 87-134.  The username is looked up and the admin is inserted
\* in one step; an exception of the store is shown as an error.
CreateAdmin(s, admin_username, admin_department, temp_password, confirm_password) ==
    /\ df[s] = <<>>
    /\ IF ~require_super_admin(s)
       THEN /\ shown' = Shown(s, "error",
                    IF ~is_admin_logged_in(s) THEN "Admin access required"
                    ELSE "Super Admin access required")
            /\ UNCHANGED <<admins, now>>
       ELSE IF admin_errors(admin_username, "Dr Smith", "admin@uni",
                            admin_department, temp_password,
                            confirm_password) # {}
       THEN /\ shown' = Shown(s, "error", "admin not created")
            /\ UNCHANGED <<admins, now>>
       ELSE \E reachable \in BOOLEAN :
            IF reachable
            THEN /\ Len(admins) < MaxAdmins
                 /\ admins' = Append(admins,
                        admin_data(admin_username, hash_password(temp_password),
                                   "Dr Smith", "admin@uni",
                                   upper(admin_department), "department_admin",
                                   now))
                 /\ now' = now + 1
                 /\ shown' = Shown(s, "success", "Department Admin created")
            ELSE /\ shown' = Shown(s, "error", "Failed to create admin")
                 /\ UNCHANGED <<admins, now>>
    /\ UNCHANGED <<students, logs, ntokens, outbox, submit_vars, verify_vars,
                   supervisors, df, script, listed>>

\* The steps of the student sessions SS and of the verification clients VS.
StudentStep(SS) ==
    \/ \E s \in SS, u \in UsernameInputs, p \in PasswordInputs : Login(s, u, p)
    \/ \E s \in SS, w \in WeekInputs, c \in ContentInputs : SubmitCheck(s, w, c)
    \/ \E s \in SS : SubmitCreate(s)
    \/ \E s \in SS : SubmitPersist(s)
    \/ \E s \in SS : SubmitSend(s)

VerifierStep(VS) ==
    \/ \E v \in VS, t \in TokenInputs, a \in ActionInputs : VerifyRequest(v, t, a)
    \/ \E v \in VS : VerifyUpdate(v)

\* One student session and two verification clients: the redemption of the
\* tokens that the session's submissions issue, by concurrent requests.
Next == StudentStep({"s1"}) \/ VerifierStep(Verifiers)

Spec == Init /\ [][Next]_vars

\* Two student sessions and one verification client: concurrent submissions.
NextSubmit == StudentStep(Sessions) \/ VerifierStep({"v1"})

SpecSubmit == Init /\ [][NextSubmit]_vars

\* The steps of the students' account page and of the administrators.
AccountStep(SS) ==
    \E s \in SS, c \in PasswordInputs, n \in NewPasswordInputs :
        \E m \in {n, WrongPass} : ChangePassword(s, c, n, m)

AdminStep(AS) ==
    \/ \E s \in AS, u \in AdminUsernameInputs, p \in AdminPasswordInputs :
          AdminLogin(s, u, p)
    \/ \E s \in AS, csv \in CsvInputs : ImportStart(s, csv)
    \/ \E s \in AS : ImportRow(s)

\* One student session and one administrator session: the accounts.
NextAccounts == StudentStep({"s1"}) \/ AccountStep({"s1"}) \/ AdminStep({"s2"})

SpecAccounts == Init /\ [][NextAccounts]_vars

\* The steps of the admin pages that a session can take beside AdminStep.
PortalStep(AS) ==
    \/ \E s \in AS, csv \in CsvInputs : ImportStartOpen(s, csv)
    \/ \E s \in AS : ViewStudents(s)
    \/ \E s \in AS : ViewStudentsOpen(s)
    \/ \E s \in AS : AdminLogout(s)
    \/ \E s \in AS, u \in NewAdminUsernameInputs, d \in DepartmentInputs,
          p \in TempPasswordInputs :
          \E c \in {p, WrongPass} : CreateAdmin(s, u, d, p, c)

LoginStep(SS) ==
    \E s \in SS, u \in UsernameInputs, p \in PasswordInputs : Login(s, u, p)

\* One browser session that opens the login pages and the admin pages.
NextAdmin == LoginStep({"s1"}) \/ AdminStep({"s1"}) \/ PortalStep({"s1"})

SpecAdmin == Init /\ [][NextAdmin]_vars

(***************************************************************************)
(* Properties.                                                             *)
(***************************************************************************)
LogIds == 1..Len(logs)
Resolved == {"approved", "rejected"}
MailedTokens == {m.approve_link.token : m \in outbox}

\* The step in which verify_log, called by client v, writes and returns.
Returns(v) == vpc[v] = "update" /\ vpc'[v] = "idle"

\* C1: redeeming a freshly issued token with action=approved on a pending log
\* leaves the log approved and its verification_token null.
C1_ApprovedClearsToken ==
    [][\A v \in Verifiers :
          LET i == vlog[v][1]._id
          IN  (Returns(v) /\ vreq[v].action = "approved"
                   /\ logs[i].verified = "pending")
                  => /\ logs'[i].verified = "approved"
                     /\ logs'[i].verification_token = NULL]_vars

\* C2: a redemption made after a first successful redemption of the same
\* token returns not-found ("Verification Failed") and the log's status stays
\* the first redemption's action.
C2_SecondRedemptionNotFound ==
    [][\A v \in Verifiers :
          (Returns(v) /\ prior[v] # {})
              => /\ shown'.message = "Verification Failed"
                 /\ \A r \in prior[v] : logs'[r.log].verified = r.action]_vars

\* C3: of two concurrent redemptions of the same token exactly one changes
\* the status and returns the log; the other observes not-found.  A
\* redemption is concurrent with the first one when it looked the token up
\* before the first one completed and returns after it.
C3_ConcurrentExactlyOne ==
    [][\A v \in Verifiers :
          (/\ Returns(v)
           /\ prior[v] = {}
           /\ \E r \in redeemed : r.token = vreq[v].token)
              => /\ shown'.message = "Verification Failed"
                 /\ logs' = logs]_vars

\* C4: approved and rejected are terminal: an approved log is never rejected
\* later, and a rejected log is never approved later.
C4_ResolvedIsTerminal ==
    [][\A i \in LogIds :
          /\ logs[i].verified = "approved" => logs'[i].verified # "rejected"
          /\ logs[i].verified = "rejected" => logs'[i].verified # "approved"]_vars

\* C5: a log whose status is not pending has verification_token null.
C5_ResolvedHasNoToken ==
    \A i \in LogIds :
        logs[i].verified # "pending" => logs[i].verification_token = NULL

\* C6: a verification request whose token is missing or empty, or whose
\* action is missing or not approved/rejected, is rejected before any store
\* access: verify_log is not called and no log changes.
InvalidRequest(tok, action) ==
    tok = NULL \/ tok = "" \/ action = NULL \/ action \notin Resolved

C6_InvalidRequestNoStoreAccess ==
    [][\A v \in Verifiers, t \in TokenInputs, a \in ActionInputs :
          (VerifyRequest(v, t, a) /\ InvalidRequest(t, a))
              => /\ logs' = logs
                 /\ vpc'[v] = "idle"
                 /\ shown'.kind = "error"
                 /\ shown'.message # "Verification Failed"]_vars

\* C6 witness: "maybe" was requested with the token of a pending log.
C6_Witness ==
    /\ shown.message = "Invalid action"
    /\ \E i \in LogIds : /\ logs[i].verified = "pending"
                         /\ logs[i].verification_token # NULL

\* C7: at most one log per (student_username, week_number).
C7_OneLogPerStudentWeek ==
    \A i, j \in LogIds :
        (/\ logs[i].student_username = logs[j].student_username
         /\ logs[i].week_number = logs[j].week_number) => i = j

\* C8: a submission for a (student, week_number) that already has a log
\* inserts no log and leaves the existing logs unchanged.
C8_DuplicateSubmissionRejected ==
    [][\A s \in Sessions :
          (/\ spc[s] = "submit" /\ spc'[s] # "submit"
           /\ check_existing_log(get_current_user(s), form[s].week_number) # NoDoc)
              => logs' = logs]_vars

\* C9: when the mail send fails after the token was persisted, the log stays
\* as it is, pending and bound to the generated token, the submitting flow
\* gets a warning, and verify_log with that token still resolves the log; a
\* pending log whose mail was never sent stays resolvable by its token.
MailFails(s) == spc[s] = "persisted" /\ spc'[s] = "idle" /\ outbox' = outbox

Unmailed(i) ==
    /\ logs[i].verification_token \notin MailedTokens \cup {NULL}
    /\ \A s \in Sessions : log_id[s] # i

C9_MailFailureKeepsToken ==
    /\ [][\A s \in Sessions :
            LET i == log_id[s]
            IN  MailFails(s)
                  => /\ logs' = logs
                     /\ logs'[i].verified = "pending"
                     /\ logs'[i].verification_token = token[s]
                     /\ token[s] # NULL
                     /\ shown'.kind = "warning"
                     /\ FindByToken(logs', token[s]) = i
                     /\ \A a \in Resolved :
                           SetVerified(logs', token[s], a)[i].verified = a]_vars
    /\ [](\A i \in LogIds :
            (Unmailed(i) /\ logs[i].verified = "pending")
                => FindByToken(logs, logs[i].verification_token) = i)

\* C9 witness: a log whose mail was never sent has been approved by its token.
C9_Witness ==
    \E i \in LogIds : Unmailed(i) /\ logs[i].verified = "approved"

\* C10: a store failure while the token is persisted is never reported as
\* the "log saved, but email notification failed" warning.
C10_StoreFailureNotAWarning ==
    [][\A s \in Sessions :
          (spc[s] = "created" /\ spc'[s] = "idle" /\ logs' = logs)
              => shown'.kind # "warning"]_vars

\* C11: the verification endpoint is idempotent: a request identical to one
\* that completed before leaves the log with the status and the token it had
\* after that first request, a request that ends without a write leaves every
\* log as it is, and repeating a request right after it returned changes
\* nothing.
C11_RepeatedRequestIsNoOp ==
    [][\A v \in Verifiers :
          /\ (vpc[v] = "idle" /\ vpc'[v] = "idle" /\ logs' # logs)
                => \A t \in TokenInputs, a \in ActionInputs :
                      ~VerifyRequest(v, t, a)
          /\ Returns(v)
                => SetVerified(logs', vreq[v].token, vreq[v].action) = logs'
          /\ (Returns(v) /\ \E r \in prior[v] : r.action = vreq[v].action)
                => \A r \in prior[v] :
                      /\ logs'[r.log].verified = r.action
                      /\ logs'[r.log].verification_token = r.token]_vars

\* C11 witness: a request identical to a completed one has looked its token
\* up and is about to write.
C11_Witness ==
    \E v \in Verifiers :
        /\ vpc[v] = "update"
        /\ \E r \in prior[v] : r.action = vreq[v].action

\* C12: a redemption with a well-formed token that no log has bound returns
\* not-found and changes no log.
Unbound(tok) == \A i \in LogIds : logs[i].verification_token # tok

C12_UnboundTokenNotFound ==
    [][\A v \in Verifiers, t \in TokenInputs, a \in ActionInputs :
          (~InvalidRequest(t, a) /\ Unbound(t) /\ VerifyRequest(v, t, a))
              => /\ logs' = logs
                 /\ vpc'[v] = "idle"
                 /\ vlog'[v] = NoDoc
                 /\ shown' = Shown(v, "error", "Verification Failed")]_vars

\* C12 witness: not-found was shown while a log had a token bound.
C12_Witness ==
    /\ shown.message = "Verification Failed"
    /\ \E i \in LogIds : logs[i].verification_token # NULL

\* C13: a log that is approved or rejected never returns to pending.
C13_ResolvedNeverPending ==
    [][\A i \in LogIds :
          logs[i].verified \in Resolved => logs'[i].verified # "pending"]_vars

\* C13 witness: a request with an invalid action (pending among them) was
\* answered after a log was resolved.
C13_Witness ==
    /\ shown.message = "Invalid action"
    /\ \E i \in LogIds : logs[i].verified \in Resolved

\* C14: every log's status is pending, approved or rejected, and every log is
\* created pending with a null verification_token.
C14_StatusEnumAndInitial ==
    /\ [](\A i \in LogIds :
            logs[i].verified \in {"pending", "approved", "rejected"})
    /\ [][Len(logs') # Len(logs)
            => /\ Len(logs') = Len(logs) + 1
               /\ logs'[Len(logs')].verified = "pending"
               /\ logs'[Len(logs')].verification_token = NULL]_vars

\* C14 witness: a log was created and its token is not issued yet.
C14_Witness ==
    \E s \in Sessions :
        /\ spc[s] = "created"
        /\ logs[log_id[s]].verified = "pending"
        /\ logs[log_id[s]].verification_token = NULL

\* C15: no two logs hold the same non-null token, a token once bound to a
\* log is never replaced, and issuance writes its token onto a log whose
\* token is null.
C15_TokenBoundToOneLog ==
    /\ [](\A i, j \in LogIds :
            (/\ logs[i].verification_token # NULL
             /\ logs[i].verification_token = logs[j].verification_token)
                => i = j)
    /\ [][/\ \A i \in LogIds :
               logs[i].verification_token # NULL
                   => logs'[i].verification_token = logs[i].verification_token
          /\ \A s \in Sessions :
               (spc[s] = "created" /\ spc'[s] = "persisted")
                   => /\ logs[log_id[s]].verification_token = NULL
                      /\ logs'[log_id[s]].verification_token # NULL]_vars

\* C15 witness: two logs hold tokens.
C15_Witness ==
    \E i, j \in LogIds :
        /\ i # j
        /\ logs[i].verification_token # NULL
        /\ logs[j].verification_token # NULL

\* C16: the record a successful redemption returns is the log its write
\* changes, as that log was immediately before the write.
C16_ReturnsPreTransitionSnapshot ==
    [][\A v \in Verifiers :
          Returns(v)
              => vlog[v][1] = logs[FindByToken(logs, vreq[v].token)]]_vars

\* C17: the two links of an issuance carry the token that the issuance
\* persisted on the log, and differ only in the action parameter, approved in
\* one and rejected in the other.
C17_LinksCarryPersistedToken ==
    \A m \in outbox :
        /\ m.approve_link.action = "approved"
        /\ m.reject_link.action = "rejected"
        /\ m.reject_link = [m.approve_link EXCEPT !.action = "rejected"]
        /\ m.approve_link.token # NULL
        /\ m.approve_link.token = logs[m.log_id].verification_token

\* C17 witness: a mail was sent and its log was rejected by the mail's link.
C17_Witness ==
    \E m \in outbox :
        /\ logs[m.log_id].verified = "rejected"
        /\ \E r \in redeemed : r.token = m.reject_link.token

\* C19: a student whose stored must_change_password flag is true creates no
\* log: whenever the submit page's create_log succeeds, the flag of the
\* submitting student is false.
C19_NoLogBeforePasswordChange ==
    [][\A s \in Sessions :
          (spc[s] = "submit" /\ spc'[s] = "created")
              => ~Get(get_student_by_username(get_current_user(s))[1],
                      "must_change_password", FALSE)]_vars

\* C20: no two student records share a username.
C20_UsernamesUnique ==
    \A i, j \in 1..Len(students) :
        students[i].username = students[j].username => i = j

\* C24: the lookup and the write of a redemption are one atomic step: while
\* a redemption is between its lookup and its write, no other request writes
\* the log it found or looks that log up.
C24_RedeemIsAtomic ==
    [][\A v \in Verifiers :
          (vpc[v] = "update" /\ vpc'[v] = "update")
              => LET i == vlog[v][1]._id
                 IN  /\ logs'[i] = logs[i]
                     /\ \A w \in Verifiers \ {v} :
                           ~(/\ vpc[w] = "idle"
                             /\ vpc'[w] = "update"
                             /\ vlog'[w][1]._id = i)]_vars

\* C25: a submission whose stripped content is empty or shorter than 50
\* characters ends before any store write: no log is created, no token is
\* drawn or persisted, no mail is sent; every stored content has at least
\* 50 characters.
C25_ShortContentRejected ==
    /\ [][\A s \in Sessions, w \in WeekInputs, c \in ContentInputs :
            (/\ spc[s] = "idle"
             /\ Len(strip(c)) < MinContentLen
             /\ SubmitCheck(s, w, c))
                => /\ spc'[s] = "idle"
                   /\ logs' = logs
                   /\ ntokens' = ntokens
                   /\ outbox' = outbox
                   /\ shown'.kind \in {"error", "warning"}]_vars
    /\ [](\A i \in LogIds : Len(strip(logs[i].content)) >= MinContentLen)

\* C25 witness: a short submission was rejected after a log was stored.
C25_Witness ==
    /\ shown.message = "at least 50 characters"
    /\ Len(logs) = 1

\* C26: after create_log no step changes a log's identity, student, week
\* number, content or submission time, and no step removes a log.
C26_LogsAppendOnly ==
    [][/\ Len(logs') >= Len(logs)
       /\ \A i \in LogIds :
             /\ logs'[i]._id = logs[i]._id
             /\ logs'[i].student_username = logs[i].student_username
             /\ logs'[i].student_name = logs[i].student_name
             /\ logs'[i].student_email = logs[i].student_email
             /\ logs'[i].supervisor_email = logs[i].supervisor_email
             /\ logs'[i].week_number = logs[i].week_number
             /\ logs'[i].content = logs[i].content
             /\ logs'[i].submitted_at = logs[i].submitted_at]_vars

\* C26 witness: of two logs, one was issued a token and rejected.
C26_Witness ==
    /\ Len(logs) = 2
    /\ \E i \in LogIds : /\ logs[i].verified = "rejected"
                         /\ logs[i].verification_token # NULL

\* C27: a log whose verification_token is null is changed by no verification
\* request and stays pending.
C27_NullTokenLogStaysPending ==
    /\ [](\A i \in LogIds :
            logs[i].verification_token = NULL => logs[i].verified = "pending")
    /\ [][\A v \in Verifiers, i \in LogIds :
            (Returns(v) /\ logs[i].verification_token = NULL)
                => logs'[i] = logs[i]]_vars

\* C27 witness: a log was left without a token by its issuance, and a
\* request without a token was answered.
C27_Witness ==
    /\ shown.message = "Invalid Verification Link"
    /\ \E i \in LogIds : /\ logs[i].verification_token = NULL
                         /\ \A s \in Sessions : log_id[s] # i

\* C28: the token is persisted on the log before the mail is handed to the
\* transport: a mail is sent only with the token its log holds, and the token
\* of every sent mail finds that log.
C28_TokenPersistedBeforeMail ==
    /\ [][\A m \in outbox' \ outbox :
            /\ m.approve_link.token # NULL
            /\ logs[m.log_id].verification_token = m.approve_link.token]_vars
    /\ [](\A m \in outbox : FindByToken(logs, m.reject_link.token) = m.log_id)

\* C28 witness: a mail was sent and its log is pending, to be found by the
\* mail's token.
C28_Witness ==
    \E m \in outbox :
        /\ logs[m.log_id].verified = "pending"
        /\ FindByToken(logs, m.approve_link.token) = m.log_id

\* C21: a student record is created, and the student list is read, only in
\* a session where admin_logged_in is true.
C21_ProvisioningNeedsAdminLogin ==
    [][/\ \A s \in Sessions :
             (df'[s] # df[s] /\ Len(students') > Len(students))
                 => is_admin_logged_in(s)
       /\ listed' # listed => is_admin_logged_in(listed'[1].session)]_vars

\* C22: in a session of a department_admin of department D the student list
\* shows only students of D and every imported student is stored with
\* department D; a list with a student outside the session's department is
\* shown to a super_admin session only.
C22_DepartmentScoping ==
    [][/\ \A s \in Sessions :
             (/\ get_admin_role(s) = "department_admin"
              /\ df'[s] # df[s]
              /\ Len(students') > Len(students))
                 => students'[Len(students')].department
                        = get_admin_department(s)
       /\ listed' # listed
             => LET s == listed'[1].session
                    list == listed'[1].students
                IN  get_admin_role(s) # "super_admin"
                        => \A i \in 1..Len(list) :
                              list[i].department = get_admin_department(s)]_vars

\* C23: an admin record is created only by the super-admin page in a session
\* where admin_logged_in is true and admin_role is super_admin; no step of
\* the page in any other session creates one.
C23_OnlySuperAdminCreatesAdmins ==
    [][admins' # admins
          => /\ Len(admins') = Len(admins) + 1
             /\ SubSeq(admins', 1, Len(admins)) = admins
             /\ admins'[Len(admins')].role = "department_admin"
             /\ \E s \in Sessions :
                   /\ is_admin_logged_in(s)
                   /\ get_admin_role(s) = "super_admin"
                   /\ \E u \in NewAdminUsernameInputs, d \in DepartmentInputs,
                         p \in TempPasswordInputs, c \in TempPasswordInputs :
                         CreateAdmin(s, u, d, p, c)
             /\ \A s \in Sessions :
                   (~is_admin_logged_in(s) \/ get_admin_role(s) # "super_admin")
                       => \A u \in NewAdminUsernameInputs,
                             d \in DepartmentInputs,
                             p \in TempPasswordInputs,
                             c \in TempPasswordInputs :
                             ~CreateAdmin(s, u, d, p, c)]_vars

\* C23 witness: a department admin exists, and a session logged in as a
\* department admin was refused by the super-admin page.
C23_Witness ==
    /\ Len(admins) = 2
    /\ shown.message = "Super Admin access required"
    /\ \E s \in Sessions : get_admin_role(s) = "department_admin"

\* A record of the collection has this username and its password matches.
Credentials(coll, username, password) ==
    \E i \in 1..Len(coll) : /\ coll[i].username = username
                           /\ verify_password(password, coll[i].password)

\* What the two login pages render after the button is clicked.
LoginMessages ==
    { "enter both username and password", "Login successful!",
      "Invalid username or password", "Admin login successful!",
      "Invalid admin username or password" }

\* C29: a login with a username and password that match no record writes no
\* session key and leaves the session not logged in; a successful login sets
\* the session's username to that of a record whose password matched.
C29_FailedLoginGrantsNothing ==
    [][(/\ store' = store
        /\ admin_vars' = admin_vars
        /\ shown'.message \in LoginMessages)
          => \A s \in Sessions :
                /\ ~is_logged_in(s)
                      => \A u \in UsernameInputs, p \in PasswordInputs :
                            Login(s, u, p)
                                => /\ ~Credentials(students, u, p)
                                        => session_state' = session_state
                                   /\ Get(session_state'[s], "logged_in", FALSE)
                                        => /\ Credentials(students, u, p)
                                           /\ session_state'[s].username = u
                /\ ~is_admin_logged_in(s)
                      => \A u \in AdminUsernameInputs,
                            p \in AdminPasswordInputs :
                            AdminLogin(s, u, p)
                                => /\ ~Credentials(admins, u, p)
                                        => session_state' = session_state
                                   /\ Get(session_state'[s],
                                          "admin_logged_in", FALSE)
                                        => /\ Credentials(admins, u, p)
                                           /\ session_state'[s].admin_username
                                                  = u]_vars

\* C29 witness: an admin login failed in a session logged in as a student,
\* which is still no admin session.
C29_Witness ==
    /\ shown.message = "Invalid admin username or password"
    /\ \E s \in Sessions : is_logged_in(s) /\ ~is_admin_logged_in(s)

====
